---- MODULE Spec2Model ----
(***************************************************************************)
(* tsc-watchman: the watch-event router of src/index.ts.                   *)
(*                                                                         *)
(* startWatchCompiler keeps three maps (rootDebounce, fileWatches,         *)
(* directoryWatches), installs host.watchDirectory / host.watchFile and    *)
(* hands one change handler to the watch source.  The model has one action *)
(* per entry point: watchDirectory, watchFile, the close() of a returned   *)
(* handle, the change handler, and the passing of time (Date.now()).       *)
(*                                                                         *)
(* Strings are sequences of one-character strings so that path.join and    *)
(* String.prototype.endsWith are computed rather than assumed.             *)
(*                                                                         *)
(* Environment assumptions: Date.now() never decreases; the watch source   *)
(* may deliver a change for any root of Roots (the handler does not check  *)
(* that the root was added); a callback is the last thing the handler      *)
(* does, so whatever a callback does to the host is an ordinary later      *)
(* step of the model.  A callback may raise; the handler has no try/catch. *)
(* The rejection of watcher.waitForWatches and the catch handler that ends *)
(* the process are two steps with no other entry point between them (the   *)
(* handler is a microtask).                                                *)
(***************************************************************************)
EXTENDS Integers, Sequences, FiniteSets, TLC

\* ------------------------------------------------------------------ bounds
\* the last instant the clock reaches in SpecDebounce
MaxTime == 1400
\* how many watchDirectory / watchFile calls one behaviour makes
MaxWatches == 2

\* --------------------------------------------------------------- constants
ROOT_DEBOUNCE == 500

\* ts.FileWatcherEventKind
Created == "Created"
Changed == "Changed"
Deleted == "Deleted"

\* ----------------------------------------------------------------- strings
TS == <<".", "t", "s">>
TSX == <<".", "t", "s", "x">>
SEP == <<"/">>
DOT == <<".">>
DOTDOT == <<".", ".">>

\* String.prototype.endsWith
EndsWith(s, suffix) ==
  /\ Len(s) >= Len(suffix)
  /\ SubSeq(s, Len(s) - Len(suffix) + 1, Len(s)) = suffix

\* index of the first "/" of s, 0 when there is none
RECURSIVE FirstSep(_, _)
FirstSep(s, i) ==
  IF i > Len(s) THEN 0
  ELSE IF s[i] = "/" THEN i
  ELSE FirstSep(s, i + 1)

\* s.split("/")
RECURSIVE Split(_)
Split(s) ==
  LET i == FirstSep(s, 1) IN
  IF i = 0 THEN <<s>>
  ELSE <<SubSeq(s, 1, i - 1)>> \o Split(SubSeq(s, i + 1, Len(s)))

\* node path.posix normalizeString: drops "" and ".", resolves ".."
RECURSIVE NormalizeSegments(_, _, _)
NormalizeSegments(acc, segs, allowAboveRoot) ==
  IF segs = <<>> THEN acc
  ELSE
    LET h == Head(segs)
        t == Tail(segs)
    IN
    IF h = <<>> \/ h = DOT THEN NormalizeSegments(acc, t, allowAboveRoot)
    ELSE IF h = DOTDOT THEN
      IF acc # <<>> /\ acc[Len(acc)] # DOTDOT
        THEN NormalizeSegments(SubSeq(acc, 1, Len(acc) - 1), t, allowAboveRoot)
      ELSE IF allowAboveRoot
        THEN NormalizeSegments(Append(acc, DOTDOT), t, allowAboveRoot)
      ELSE NormalizeSegments(acc, t, allowAboveRoot)
    ELSE NormalizeSegments(Append(acc, h), t, allowAboveRoot)

\* segs.join("/")
RECURSIVE JoinSegments(_)
JoinSegments(segs) ==
  IF segs = <<>> THEN <<>>
  ELSE IF Len(segs) = 1 THEN segs[1]
  ELSE segs[1] \o SEP \o JoinSegments(Tail(segs))

\* node path.posix.normalize
Normalize(p) ==
  IF p = <<>> THEN DOT
  ELSE
    LET isAbsolute == p[1] = "/"
        trailingSeparator == p[Len(p)] = "/"
        body == JoinSegments(NormalizeSegments(<<>>, Split(p), ~isAbsolute))
    IN
    IF body = <<>>
      THEN (IF isAbsolute THEN SEP ELSE IF trailingSeparator THEN DOT \o SEP ELSE DOT)
    ELSE (IF isAbsolute THEN SEP ELSE <<>>) \o body
         \o (IF trailingSeparator THEN SEP ELSE <<>>)

\* node path.posix.join of two arguments: empty arguments are skipped
pathJoin(root, path) ==
  IF root = <<>> /\ path = <<>> THEN DOT
  ELSE IF root = <<>> THEN Normalize(path)
  ELSE IF path = <<>> THEN Normalize(root)
  ELSE Normalize(root \o SEP \o path)

\* ------------------------------------------------------------------ inputs
\* "/p" and "/p/d"
DirP == <<"/", "p">>
DirPD == <<"/", "p", "/", "d">>
\* "/p/a.ts", "/p/a.tsx" and "/p/a.js"
FileATs == <<"/", "p", "/", "a", ".", "t", "s">>
FileATsx == <<"/", "p", "/", "a", ".", "t", "s", "x">>
FileAJs == <<"/", "p", "/", "a", ".", "j", "s">>

\* the paths the consumer registers
DirPaths == {DirP, DirPD}
FilePaths == {FileATs, FileATsx, FileAJs}
\* the consumer's callbacks
Callbacks == {"C1", "C2"}

\* the changes the watch source delivers: directory changes with the
\* relative paths "" and "d", file changes with the relative paths
\* "a.ts", "a.tsx", "a.js" and "a.ts/."
Roots == DirPaths
DirRelPaths == { <<>>, <<"d">> }
FileRelPaths == { <<"a", ".", "t", "s">>, <<"a", ".", "t", "s", "x">>,
                  <<"a", ".", "j", "s">>, <<"a", ".", "t", "s", "/", ".">> }
Changes ==
  [root : Roots, path : DirRelPaths, isDirectory : {TRUE}, removal : BOOLEAN]
  \cup [root : Roots, path : FileRelPaths, isDirectory : {FALSE}, removal : BOOLEAN]

\* the readings of Date.now() in Spec: a registration and the first instant
\* at which its debounce has elapsed
Instants == {0, ROOT_DEBOUNCE + 1}

\* SpecDebounce follows one root through a long burst: the readings of
\* Date.now() are finer, the changes are directory changes of the root itself
BurstInstants == {t \in {0, 10, 120, 490, 500, 501, 750} : t < MaxTime} \cup {MaxTime}
BurstChanges == [root : Roots, path : {<<>>}, isDirectory : {TRUE}, removal : BOOLEAN]

\* SpecRegistries registers one and the same path with watchDirectory and
\* with watchFile; the changes are for that path, as a directory and as a file
SharedPath == FileATs
SharedChanges ==
  [root : {DirP}, path : {<<"a", ".", "t", "s">>}, isDirectory : BOOLEAN,
   removal : BOOLEAN]

\* -------------------------------------------------------------------- maps
\* Map.prototype.set / delete / has on a function with a finite domain
MapSet(m, k, v) == [x \in (DOMAIN m) \cup {k} |-> IF x = k THEN v ELSE m[x]]
MapDelete(m, k) == [x \in (DOMAIN m) \ {k} |-> m[x]]
EmptyMap == [x \in {} |-> 0]
MapHas(m, k) == k \in DOMAIN m
\* Map.prototype.get: <<v>> for a value, <<>> for undefined
MapGet(m, k) == IF k \in DOMAIN m THEN <<m[k]>> ELSE <<>>

\* ------------------------------------------------------------------- state
VARIABLES
  now,               \* the reading of Date.now()
  rootDebounce,      \* Map<string, number>
  fileWatches,       \* Map<string, ts.FileWatcherCallback>
  directoryWatches,  \* Map<string, ts.DirectoryWatcherCallback>
  roots,             \* the roots given to watcher.addRoot
  handles,           \* the { close() } objects returned so far
  setupFailed,       \* watcher.waitForWatches has been rejected
  exitCode,          \* <<>> while the process runs, <<code>> after process.exit
  raised,            \* the callback invoked by the last change raised an error
  propagated,        \* the last change handler ended with that error
  effects,           \* the map and watcher calls of the last entry point, in order
  armedAt,           \* history: root -> time of its latest watchDirectory
  burst,             \* history: root -> time of its latest change, while every
                     \*   change since its latest watchDirectory came at most
                     \*   500 ms after the one before (or after the registration)
  cleared,           \* history: the roots whose debounce entry was ever deleted
  closed,            \* history: the <<kind, path>> closed and not registered since
  latest,            \* history: <<kind, path>> -> callback of its latest registration
  lastOp,            \* history: the entry point that ran last
  lastArg,           \* history: its argument
  debounce,          \* history: rootDebounce.get(root) as read by the last change
  admitted,          \* history: the last change passed the debounce check
  invoked            \* history: the callback invocations of the last change

prog == <<now, rootDebounce, fileWatches, directoryWatches, roots>>
vars == <<now, rootDebounce, fileWatches, directoryWatches, roots, handles,
          setupFailed, exitCode, raised, propagated, effects,
          armedAt, burst, cleared, closed, latest,
          lastOp, lastArg, debounce, admitted, invoked>>

NoArg == [none |-> TRUE]
Undefined == <<>>

Init ==
  /\ now = 0
  /\ rootDebounce = EmptyMap
  /\ fileWatches = EmptyMap
  /\ directoryWatches = EmptyMap
  /\ roots = {}
  /\ handles = {}
  /\ setupFailed = FALSE
  /\ exitCode = <<>>
  /\ raised = FALSE
  /\ propagated = FALSE
  /\ effects = <<>>
  /\ armedAt = EmptyMap
  /\ burst = EmptyMap
  /\ cleared = {}
  /\ closed = {}
  /\ latest = EmptyMap
  /\ lastOp = "init"
  /\ lastArg = NoArg
  /\ debounce = Undefined
  /\ admitted = FALSE
  /\ invoked = <<>>

\* ------------------------------------------------------ the change handler
\* variant: the window ends at exactly ROOT_DEBOUNCE
DebounceElapsedInclusive(period) == period >= ROOT_DEBOUNCE

\* line 74: period > ROOT_DEBOUNCE ends the debounce of the root
DebounceElapsed(period) == period > ROOT_DEBOUNCE

\* variant: an elapsed entry is refreshed instead of deleted
DebounceAfterKeepsEntry(entries, root, t) ==
  IF ~MapHas(entries, root) THEN entries
  ELSE MapSet(entries, root, t)

\* variant: a suppressed change does not refresh the entry
DebounceAfterNoRefresh(entries, root, t) ==
  IF ~MapHas(entries, root) THEN entries
  ELSE IF DebounceElapsed(t - entries[root]) THEN MapDelete(entries, root)
  ELSE entries

\* variant: an elapsed entry clears the whole map
DebounceAfterClearsAll(entries, root, t) ==
  IF ~MapHas(entries, root) THEN entries
  ELSE IF DebounceElapsed(t - entries[root]) THEN EmptyMap
  ELSE MapSet(entries, root, t)

\* lines 70-81: the debounce map after a change for root at time t
DebounceAfter(entries, root, t) ==
  IF ~MapHas(entries, root) THEN entries
  ELSE IF DebounceElapsed(t - entries[root]) THEN MapDelete(entries, root)
  ELSE MapSet(entries, root, t)

\* variant: no test for undefined, so that now - undefined (NaN) never
\* exceeds ROOT_DEBOUNCE
PassesDebounceNoUndefinedTest(entries, root, t) ==
  MapHas(entries, root) /\ DebounceElapsed(t - entries[root])

\* variant: one debounce window shared by all roots
PassesDebounceAnyRoot(entries, root, t) ==
  \A r \in DOMAIN entries : DebounceElapsed(t - entries[r])

\* lines 70-81: whether the handler goes on to dispatch
PassesDebounce(entries, root, t) ==
  ~MapHas(entries, root) \/ DebounceElapsed(t - entries[root])

\* variant: .js passes the filter too
IsWatchedExtensionWithJs(path) ==
  EndsWith(path, TS) \/ EndsWith(path, TSX) \/ EndsWith(path, <<".", "j", "s">>)

\* line 90
IsWatchedExtension(path) == EndsWith(path, TS) \/ EndsWith(path, TSX)

\* variant: a change that is not a removal is reported as Created
EventKindCreated(removal) == IF removal THEN Deleted ELSE Created

\* lines 97-101
EventKind(removal) == IF removal THEN Deleted ELSE Changed

\* variant: removals of directories are not reported
DispatchDirectorySkipsRemoval(change, dirs) ==
  LET fullPath == pathJoin(change.root, change.path) IN
  IF MapHas(dirs, fullPath) /\ ~change.removal
    THEN <<[callback |-> dirs[fullPath], args |-> <<fullPath>>]>>
    ELSE <<>>

\* variant: a directory change without an entry falls back to the callback
\* of its root
DispatchDirectoryByRoot(change, dirs) ==
  LET fullPath == pathJoin(change.root, change.path) IN
  IF MapHas(dirs, fullPath)
    THEN <<[callback |-> dirs[fullPath], args |-> <<fullPath>>]>>
  ELSE IF MapHas(dirs, change.root)
    THEN <<[callback |-> dirs[change.root], args |-> <<fullPath>>]>>
  ELSE <<>>

\* lines 83-87: the invocations of the directory branch
DispatchDirectory(change, dirs) ==
  LET fullPath == pathJoin(change.root, change.path) IN
  IF MapHas(dirs, fullPath)
    THEN <<[callback |-> dirs[fullPath], args |-> <<fullPath>>]>>
    ELSE <<>>

\* variant: the else of line 99 is missing, a removal is reported as Deleted
\* and then as Changed
DispatchFileNoElse(change, files) ==
  IF ~IsWatchedExtension(change.path) THEN <<>>
  ELSE
    LET fullPath == pathJoin(change.root, change.path) IN
    IF MapHas(files, fullPath)
      THEN IF change.removal
             THEN <<[callback |-> files[fullPath], args |-> <<fullPath, Deleted>>],
                    [callback |-> files[fullPath], args |-> <<fullPath, Changed>>]>>
             ELSE <<[callback |-> files[fullPath], args |-> <<fullPath, Changed>>]>>
      ELSE <<>>

\* lines 88-105: the invocations of the file branch
DispatchFile(change, files) ==
  IF ~IsWatchedExtension(change.path) THEN <<>>
  ELSE
    LET fullPath == pathJoin(change.root, change.path) IN
    IF MapHas(files, fullPath)
      THEN <<[callback |-> files[fullPath],
              args |-> <<fullPath, EventKind(change.removal)>>]>>
      ELSE <<>>

\* variant: the directory registry is looked up first whatever the kind of
\* the change, the file registry next
DispatchEither(change, dirs, files) ==
  IF DispatchDirectory(change, dirs) # <<>> THEN DispatchDirectory(change, dirs)
  ELSE DispatchFile(change, files)

\* lines 83-105
Dispatch(change, dirs, files) ==
  IF change.isDirectory THEN DispatchDirectory(change, dirs)
  ELSE DispatchFile(change, files)

\* lines 70-81: the calls on rootDebounce after the get of line 70
DebounceEffects(entries, root, t) ==
  IF ~MapHas(entries, root) THEN <<>>
  ELSE IF DebounceElapsed(t - entries[root]) THEN <<"rootDebounce.delete">>
  ELSE <<"rootDebounce.set">>

\* variant: a try/catch around the dispatch swallows the error
PropagatesCaught(error) == FALSE

\* lines 67-106: there is no try/catch, an error of the callback leaves the
\* handler
Propagates(error) == error

\* the process runs and no catch handler of waitForWatches is pending
Running == exitCode = <<>> /\ ~setupFailed

\* lines 67-106; raises: the invoked callback raises an error
Change(change, raises) ==
  /\ Running
  /\ raises \in {FALSE, /\ PassesDebounce(rootDebounce, change.root, now)
                         /\ Dispatch(change, directoryWatches, fileWatches) # <<>>}
  /\ raised' = raises
  /\ propagated' = Propagates(raises)
  /\ effects' = DebounceEffects(rootDebounce, change.root, now)
  /\ rootDebounce' = DebounceAfter(rootDebounce, change.root, now)
  /\ admitted' = PassesDebounce(rootDebounce, change.root, now)
  /\ invoked' = IF PassesDebounce(rootDebounce, change.root, now)
                  THEN Dispatch(change, directoryWatches, fileWatches)
                  ELSE <<>>
  /\ debounce' = MapGet(rootDebounce, change.root)
  /\ burst' = IF MapHas(burst, change.root)
                THEN (IF now - burst[change.root] <= 500
                        THEN MapSet(burst, change.root, now)
                        ELSE MapDelete(burst, change.root))
                ELSE burst
  /\ cleared' = IF MapHas(rootDebounce, change.root)
                     /\ ~MapHas(rootDebounce', change.root)
                  THEN cleared \cup {change.root} ELSE cleared
  /\ lastOp' = "change"
  /\ lastArg' = change
  /\ UNCHANGED <<now, fileWatches, directoryWatches, roots, handles, armedAt,
                 closed, latest, setupFailed, exitCode>>

\* ---------------------------------------------------------------- the host
DirectoryHandle(path, callback) ==
  [kind |-> "directory", path |-> path, callback |-> callback]
FileHandle(path, callback) ==
  [kind |-> "file", path |-> path, callback |-> callback]

\* variant: the first registration of a path wins
SetWatchKeepsFirst(watches, path, callback) ==
  IF MapHas(watches, path) THEN watches ELSE MapSet(watches, path, callback)

\* lines 109 and 127: directoryWatches.set / fileWatches.set
SetWatch(watches, path, callback) == MapSet(watches, path, callback)

\* variant: only a root that was not added before is debounced
StartDebounceNewRootOnly(entries, added, path, t) ==
  IF path \in added THEN entries ELSE MapSet(entries, path, t)

\* line 110: rootDebounce.set(path, Date.now()); added: the roots given to
\* addRoot so far
StartDebounce(entries, added, path, t) == MapSet(entries, path, t)

\* variant: the root is added before its debounce entry is written
WatchDirectoryEffectsAddFirst ==
  <<"directoryWatches.set", "addRoot", "rootDebounce.set", "waitForWatches.catch">>

\* lines 109-113 in order
WatchDirectoryEffects ==
  <<"directoryWatches.set", "rootDebounce.set", "addRoot", "waitForWatches.catch">>

\* lines 108-124
WatchDirectory(path, callback) ==
  /\ Running
  /\ Cardinality(handles) < MaxWatches
  /\ directoryWatches' = SetWatch(directoryWatches, path, callback)
  /\ rootDebounce' = StartDebounce(rootDebounce, roots, path, now)
  /\ effects' = WatchDirectoryEffects
  /\ raised' = FALSE
  /\ propagated' = FALSE
  /\ roots' = roots \cup {path}
  /\ handles' = handles \cup {DirectoryHandle(path, callback)}
  /\ armedAt' = MapSet(armedAt, path, now)
  /\ burst' = MapSet(burst, path, now)
  /\ closed' = closed \ {<<"directory", path>>}
  /\ latest' = MapSet(latest, <<"directory", path>>, callback)
  /\ lastOp' = "watchDirectory"
  /\ lastArg' = DirectoryHandle(path, callback)
  /\ debounce' = Undefined
  /\ admitted' = FALSE
  /\ invoked' = <<>>
  /\ UNCHANGED <<now, fileWatches, cleared, setupFailed, exitCode>>

\* lines 126-133
WatchFile(path, callback) ==
  /\ Running
  /\ Cardinality(handles) < MaxWatches
  /\ effects' = <<"fileWatches.set">>
  /\ raised' = FALSE
  /\ propagated' = FALSE
  /\ fileWatches' = SetWatch(fileWatches, path, callback)
  /\ handles' = handles \cup {FileHandle(path, callback)}
  /\ closed' = closed \ {<<"file", path>>}
  /\ latest' = MapSet(latest, <<"file", path>>, callback)
  /\ lastOp' = "watchFile"
  /\ lastArg' = FileHandle(path, callback)
  /\ debounce' = Undefined
  /\ admitted' = FALSE
  /\ invoked' = <<>>
  /\ UNCHANGED <<now, rootDebounce, directoryWatches, roots, armedAt, burst, cleared,
                 setupFailed, exitCode>>

\* variant: close() of a directory handle empties the registry
CloseDirectoryClearsAll(dirs, h) == EmptyMap

\* lines 119-122: close() of a handle of watchDirectory
CloseDirectory(dirs, h) == MapDelete(dirs, h.path)

\* variant: close() of a file handle forgets to delete
CloseFileKeepsEntry(files, h) == files

\* lines 129-131: close() of a handle of watchFile
CloseFile(files, h) == MapDelete(files, h.path)

\* lines 118-123 and 128-132
Close(h) ==
  /\ Running
  /\ h \in handles
  /\ effects' = IF h.kind = "directory" THEN <<"directoryWatches.delete">>
                                        ELSE <<"fileWatches.delete">>
  /\ raised' = FALSE
  /\ propagated' = FALSE
  /\ IF h.kind = "directory"
       THEN /\ directoryWatches' = CloseDirectory(directoryWatches, h)
            /\ UNCHANGED fileWatches
       ELSE /\ fileWatches' = CloseFile(fileWatches, h)
            /\ UNCHANGED directoryWatches
  /\ closed' = closed \cup {<<h.kind, h.path>>}
  /\ lastOp' = "close"
  /\ lastArg' = h
  /\ debounce' = Undefined
  /\ admitted' = FALSE
  /\ invoked' = <<>>
  /\ UNCHANGED <<now, rootDebounce, roots, handles, armedAt, burst, cleared, latest,
                 setupFailed, exitCode>>

\* Date.now() (lines 72, 110) moves on between two entry points
Tick(t) ==
  /\ Running
  /\ t > now
  /\ effects' = <<>>
  /\ raised' = FALSE
  /\ propagated' = FALSE
  /\ now' = t
  /\ lastOp' = "tick"
  /\ lastArg' = NoArg
  /\ debounce' = Undefined
  /\ admitted' = FALSE
  /\ invoked' = <<>>
  /\ UNCHANGED <<rootDebounce, fileWatches, directoryWatches, roots, handles,
                 armedAt, burst, cleared, closed, latest, setupFailed, exitCode>>

\* lines 111-113: the watch source fails to set up a root that was added;
\* watcher.waitForWatches, which every watchDirectory has a catch on, rejects
SetupFails ==
  /\ Running
  /\ roots # {}
  /\ setupFailed' = TRUE
  /\ lastOp' = "setupFails"
  /\ lastArg' = NoArg
  /\ effects' = <<>>
  /\ raised' = FALSE
  /\ propagated' = FALSE
  /\ debounce' = Undefined
  /\ admitted' = FALSE
  /\ invoked' = <<>>
  /\ UNCHANGED <<now, rootDebounce, fileWatches, directoryWatches, roots, handles,
                 armedAt, burst, cleared, closed, latest, exitCode>>

\* variant: the catch handler ends the process with status 0
ExitCodeOnFailureZero == <<0>>

\* line 115: process.exit(1)
ExitCodeOnFailure == <<1>>

\* lines 113-116: the catch handler of waitForWatches
ExitOnSetupFailure ==
  /\ setupFailed
  /\ exitCode = <<>>
  /\ exitCode' = ExitCodeOnFailure
  /\ setupFailed' = FALSE
  /\ lastOp' = "exit"
  /\ lastArg' = NoArg
  /\ effects' = <<"console.warn", "process.exit">>
  /\ raised' = FALSE
  /\ propagated' = FALSE
  /\ debounce' = Undefined
  /\ admitted' = FALSE
  /\ invoked' = <<>>
  /\ UNCHANGED <<now, rootDebounce, fileWatches, directoryWatches, roots, handles,
                 armedAt, burst, cleared, closed, latest>>

Next ==
  \/ \E change \in Changes, raises \in BOOLEAN : Change(change, raises)
  \/ \E path \in DirPaths, callback \in Callbacks : WatchDirectory(path, callback)
  \/ \E path \in FilePaths, callback \in Callbacks : WatchFile(path, callback)
  \/ \E h \in handles : Close(h)
  \/ \E t \in Instants : Tick(t)
  \/ SetupFails
  \/ ExitOnSetupFailure

Spec == Init /\ [][Next]_vars

NextDebounce ==
  \/ \E change \in BurstChanges, raises \in BOOLEAN : Change(change, raises)
  \/ \E callback \in Callbacks : WatchDirectory(DirP, callback)
  \/ \E h \in handles : Close(h)
  \/ \E t \in BurstInstants : Tick(t)

SpecDebounce == Init /\ [][NextDebounce]_vars

NextRegistries ==
  \/ \E change \in SharedChanges, raises \in BOOLEAN : Change(change, raises)
  \/ \E callback \in Callbacks : WatchDirectory(SharedPath, callback)
  \/ \E callback \in Callbacks : WatchFile(SharedPath, callback)
  \/ \E h \in handles : Close(h)
  \/ \E t \in Instants : Tick(t)

SpecRegistries == Init /\ [][NextRegistries]_vars

\* the catch handler of a rejected promise is a microtask: it runs
SpecSetup == Init /\ [][Next]_vars /\ WF_vars(ExitOnSetupFailure)

\* ------------------------------------------------------------------ claims
\* what the last change was about
LastRoot == lastArg.root
LastFullPath == pathJoin(lastArg.root, lastArg.path)
LastKind == IF lastArg.isDirectory THEN "directory" ELSE "file"
LastKey == <<LastKind, LastFullPath>>
LastEndsInTs == EndsWith(lastArg.path, TS) \/ EndsWith(lastArg.path, TSX)

\* C1: a change for a root processed at most 500 ms after the root's
\* watchDirectory is discarded: the handler stops at the debounce check and
\* invokes no callback
C1_DiscardedWithinWindow ==
  (/\ lastOp = "change"
   /\ MapHas(armedAt, LastRoot)
   /\ now - armedAt[LastRoot] <= 500)
  => (~admitted /\ invoked = <<>>)

\* C1 witness: a directory change for a watched directory, exactly 500 ms
\* after its registration, is discarded
C1_Witness ==
  /\ lastOp = "change"
  /\ lastArg.isDirectory
  /\ MapHas(armedAt, LastRoot)
  /\ now - armedAt[LastRoot] = 500
  /\ MapHas(directoryWatches, LastFullPath)
  /\ invoked = <<>>

\* C2: when the root of a change has a debounce entry T, the change is
\* admitted iff now - T > 500, and admitting it deletes the entry in the same
\* step; otherwise the entry stays and nothing is invoked
C2_AdmittedIffElapsed ==
  (lastOp = "change" /\ debounce # Undefined)
  => /\ admitted <=> (now - debounce[1] > 500)
     /\ admitted => ~MapHas(rootDebounce, LastRoot)
     /\ ~admitted => (MapHas(rootDebounce, LastRoot) /\ invoked = <<>>)
     /\ (lastArg.isDirectory /\ MapHas(directoryWatches, LastFullPath))
          => (invoked # <<>> <=> now - debounce[1] > 500)

\* C2 witness: a change more than 500 ms after the entry's timestamp is
\* dispatched and the entry is gone
C2_Witness ==
  /\ lastOp = "change"
  /\ debounce # Undefined
  /\ now - debounce[1] > 500
  /\ invoked # <<>>
  /\ ~MapHas(rootDebounce, LastRoot)

\* C3: a change inside the window sets the entry to the time of the change
\* and is discarded; as long as every change of a root came at most 500 ms
\* after the one before (or after the registration), the entry is the time
\* of the latest of them and none of them is admitted
C3_BurstRefreshesAndDiscards ==
  /\ \A r \in DOMAIN burst : MapHas(rootDebounce, r) /\ rootDebounce[r] = burst[r]
  /\ (lastOp = "change" /\ debounce # Undefined /\ now - debounce[1] <= 500)
       => /\ MapHas(rootDebounce, LastRoot)
          /\ rootDebounce[LastRoot] = now
          /\ ~admitted
          /\ invoked = <<>>
  /\ (lastOp = "change" /\ MapHas(burst, LastRoot))
       => (~admitted /\ invoked = <<>>)

\* C3 witness: a burst that has lasted longer than 500 ms since the
\* registration, its latest change still discarded
C3_Witness ==
  /\ lastOp = "change"
  /\ MapHas(burst, LastRoot)
  /\ now - armedAt[LastRoot] > 500
  /\ debounce # Undefined
  /\ debounce[1] > armedAt[LastRoot]
  /\ MapHas(directoryWatches, LastFullPath)
  /\ invoked = <<>>

\* C4 as stated: an admitted file change whose full path is registered
\* invokes the registered callback once with (path, Deleted or Changed)
C4_RegisteredFileInvoked ==
  (/\ lastOp = "change"
   /\ admitted
   /\ ~lastArg.isDirectory
   /\ MapHas(fileWatches, LastFullPath))
  => invoked = <<[callback |-> fileWatches[LastFullPath],
                  args |-> <<LastFullPath,
                             IF lastArg.removal THEN Deleted ELSE Changed>>]>>

\* C4 amended: an admitted file change whose relative path ends in .ts or
\* .tsx and whose full path is registered invokes the registered callback
\* once with (path, Deleted) for a removal and (path, Changed) otherwise; no
\* file callback is invoked with another kind
C4_WatchedFileInvoked ==
  /\ (/\ lastOp = "change"
      /\ admitted
      /\ ~lastArg.isDirectory
      /\ LastEndsInTs
      /\ MapHas(fileWatches, LastFullPath))
     => invoked = <<[callback |-> fileWatches[LastFullPath],
                     args |-> <<LastFullPath,
                                IF lastArg.removal THEN Deleted ELSE Changed>>]>>
  /\ \A i \in DOMAIN invoked :
       Len(invoked[i].args) = 2 => invoked[i].args[2] \in {Changed, Deleted}

\* C4 witness: a removal of a registered .tsx file reaches its callback
C4_Witness ==
  /\ lastOp = "change"
  /\ ~lastArg.isDirectory
  /\ lastArg.removal
  /\ EndsWith(lastArg.path, TSX)
  /\ invoked # <<>>
  /\ invoked[1].args = <<LastFullPath, Deleted>>

\* C5 as stated: a change whose relative path does not end in .ts or .tsx
\* invokes no callback
C5_NoCallbackForOtherExtension ==
  (lastOp = "change" /\ ~LastEndsInTs) => invoked = <<>>

\* C5 amended: a file change whose relative path does not end in .ts or
\* .tsx invokes no callback, whatever is registered
C5_NoFileCallbackForOtherExtension ==
  (lastOp = "change" /\ ~lastArg.isDirectory /\ ~LastEndsInTs) => invoked = <<>>

\* C5 witness: an admitted change of a registered .js file invokes nothing
C5_Witness ==
  /\ lastOp = "change"
  /\ admitted
  /\ ~lastArg.isDirectory
  /\ ~LastEndsInTs
  /\ MapHas(fileWatches, LastFullPath)
  /\ invoked = <<>>

\* C6: an admitted directory change whose full path is registered invokes
\* the registered callback once with the full path, removal or not
C6_DirectoryInvoked ==
  (/\ lastOp = "change"
   /\ admitted
   /\ lastArg.isDirectory
   /\ MapHas(directoryWatches, LastFullPath))
  => invoked = <<[callback |-> directoryWatches[LastFullPath],
                  args |-> <<LastFullPath>>]>>

\* C6 witness: the removal of a registered directory reaches its callback
C6_Witness ==
  /\ lastOp = "change"
  /\ lastArg.isDirectory
  /\ lastArg.removal
  /\ MapHas(directoryWatches, LastFullPath)
  /\ invoked = <<[callback |-> directoryWatches[LastFullPath],
                  args |-> <<LastFullPath>>]>>

\* C7: after close() the path has no entry in the registry of the handle's
\* kind, a change for a path closed and not registered since invokes no
\* callback, and a second close() of the same handle changes nothing
C7_CloseRemovesAndIsIdempotent ==
  /\ [](lastOp = "close" =>
          ~MapHas(IF lastArg.kind = "directory"
                    THEN directoryWatches ELSE fileWatches, lastArg.path))
  /\ []((lastOp = "change" /\ LastKey \in closed) => invoked = <<>>)
  /\ [][(lastOp = "close" /\ lastOp' = "close" /\ lastArg' = lastArg)
          => UNCHANGED <<prog, handles>>]_vars

\* C7 witness: an admitted change for a watched-extension file, closed and
\* not registered since, invokes nothing
C7_Witness ==
  /\ lastOp = "change"
  /\ admitted
  /\ ~lastArg.isDirectory
  /\ LastEndsInTs
  /\ LastKey \in closed
  /\ invoked = <<>>

\* C8: close() of a handle leaves the entry of another handle alone: when
\* the path is registered with a callback that is not the handle's, the
\* registration is still there after the close
C8_CloseLeavesOtherHandle ==
  [][lastOp' = "close" =>
       /\ (/\ lastArg'.kind = "file"
           /\ MapHas(fileWatches, lastArg'.path)
           /\ fileWatches[lastArg'.path] # lastArg'.callback)
          => (/\ MapHas(fileWatches', lastArg'.path)
              /\ fileWatches'[lastArg'.path] = fileWatches[lastArg'.path])
       /\ (/\ lastArg'.kind = "directory"
           /\ MapHas(directoryWatches, lastArg'.path)
           /\ directoryWatches[lastArg'.path] # lastArg'.callback)
          => (/\ MapHas(directoryWatches', lastArg'.path)
              /\ directoryWatches'[lastArg'.path] = directoryWatches[lastArg'.path])]_vars

\* C9: a change invokes at most one callback, and only the callback of the
\* latest registration of its path; with no close since that registration an
\* admitted matching change invokes exactly that callback
C9_LastRegistrationWins ==
  lastOp = "change" =>
    /\ Len(invoked) <= 1
    /\ invoked # <<>>
         => (MapHas(latest, LastKey) /\ invoked[1].callback = latest[LastKey])
    /\ (/\ admitted
        /\ MapHas(latest, LastKey)
        /\ LastKey \notin closed
        /\ (lastArg.isDirectory \/ LastEndsInTs))
       => (Len(invoked) = 1 /\ invoked[1].callback = latest[LastKey])

\* C9 witness: the path was registered with C1 and with C2, C2 last, and the
\* change reaches C2
C9_Witness ==
  /\ lastOp = "change"
  /\ invoked # <<>>
  /\ invoked[1].callback = "C2"
  /\ \E h \in handles :
       h.kind = LastKind /\ h.path = LastFullPath /\ h.callback = "C1"

\* C10 as stated: once the entry of a root has been deleted, no change for
\* that root is discarded by the debounce check again
C10_NeverDiscardedAgain ==
  (lastOp = "change" /\ LastRoot \in cleared) => admitted

\* C10 amended: once the entry of a root has been deleted, the root has no
\* entry and every change for it is admitted until watchDirectory is called
\* for that root again
C10_AdmittedUntilRearmed ==
  [][\A r \in Roots :
       (MapHas(armedAt, r) /\ ~MapHas(rootDebounce, r))
       => \/ (lastOp' = "watchDirectory" /\ lastArg'.path = r)
          \/ /\ ~MapHas(rootDebounce', r)
             /\ (lastOp' = "change" /\ lastArg'.root = r) => admitted']_vars

\* C10 witness: a change for a root whose entry was deleted earlier finds no
\* entry and is dispatched
C10_Witness ==
  /\ lastOp = "change"
  /\ LastRoot \in cleared
  /\ debounce = Undefined
  /\ admitted
  /\ invoked # <<>>

\* C11: a watchDirectory leaves a debounce entry for its path stamped with
\* the current time, also for a root whose entry was deleted before; a
\* change for such a root at most 500 ms after the new registration is
\* discarded
C11_RearmedOnRegistration ==
  /\ lastOp = "watchDirectory"
       => (/\ MapHas(rootDebounce, lastArg.path)
           /\ rootDebounce[lastArg.path] = now)
  /\ (/\ lastOp = "change"
      /\ LastRoot \in cleared
      /\ MapHas(armedAt, LastRoot)
      /\ now - armedAt[LastRoot] <= 500)
     => (~admitted /\ invoked = <<>>)

\* C11 witness: the root was debounced, cleared and registered again; a
\* change for its watched directory after the new registration is discarded
C11_Witness ==
  /\ lastOp = "change"
  /\ lastArg.isDirectory
  /\ LastRoot \in cleared
  /\ MapHas(armedAt, LastRoot)
  /\ armedAt[LastRoot] > 500
  /\ now - armedAt[LastRoot] <= 500
  /\ MapHas(directoryWatches, LastFullPath)
  /\ debounce # Undefined
  /\ invoked = <<>>

\* C12: once the watch source has signalled a setup failure the process
\* ends with a non-zero exit status; from the signal on no root is added and
\* no callback is invoked, and an ended process takes no step
C12_SetupFailureEndsProcess ==
  /\ setupFailed ~> (exitCode # <<>> /\ exitCode[1] # 0)
  /\ [][(setupFailed \/ exitCode # <<>>)
          => (/\ roots' = roots
              /\ invoked' = <<>>
              /\ \A i \in DOMAIN effects' : effects'[i] # "addRoot")]_vars
  /\ [][exitCode # <<>> => UNCHANGED <<prog, handles, exitCode>>]_vars

\* C12 witness: the process has ended with status 1 while a directory
\* callback was registered for an added root
C12_Witness ==
  /\ exitCode = <<1>>
  /\ lastOp = "exit"
  /\ \E r \in roots : MapHas(directoryWatches, r)

\* position of the first call named c in the calls es, 0 when there is none
FirstCall(es, c) ==
  IF \E i \in DOMAIN es : es[i] = c
    THEN CHOOSE i \in DOMAIN es : es[i] = c /\ \A j \in 1..(i - 1) : es[j] # c
    ELSE 0
CountCalls(es, c) == Cardinality({i \in DOMAIN es : es[i] = c})

\* C13 as stated: the debounce start of a root is performed once per root:
\* a root that has been started is not started by a later watchDirectory
C13_StartedOncePerRoot ==
  [][\A r \in Roots :
       MapHas(armedAt, r) => ~(lastOp' = "watchDirectory" /\ lastArg'.path = r)]_vars

\* C13 amended: every watchDirectory call performs the debounce start of its
\* path exactly once, stamped with the time of the call, before its one
\* addRoot; no other entry point calls addRoot, so every added root has been
\* started
C13_StartedOncePerRegistration ==
  /\ lastOp = "watchDirectory"
       => (/\ CountCalls(effects, "rootDebounce.set") = 1
           /\ CountCalls(effects, "addRoot") = 1
           /\ FirstCall(effects, "rootDebounce.set") < FirstCall(effects, "addRoot")
           /\ MapHas(rootDebounce, lastArg.path)
           /\ rootDebounce[lastArg.path] = now
           /\ armedAt[lastArg.path] = now
           /\ lastArg.path \in roots)
  /\ lastOp # "watchDirectory" => CountCalls(effects, "addRoot") = 0
  /\ roots \subseteq DOMAIN armedAt

\* C13 witness: a second watchDirectory of a root, later than the first,
\* has started its debounce again
C13_Witness ==
  /\ lastOp = "watchDirectory"
  /\ Cardinality({h \in handles : h.kind = "directory" /\ h.path = lastArg.path}) = 2
  /\ now > 0
  /\ rootDebounce[lastArg.path] = now

\* C14: close() of a directory handle for p removes at most the entry of p
\* from the directory registry and changes nothing else: the file registry,
\* the other directory entries, the debounce map and the added roots stay,
\* and a change for the root p after the close is debounced like any other
C14_DirectoryCloseFrame ==
  /\ [][(lastOp' = "close" /\ lastArg'.kind = "directory")
          => (/\ fileWatches' = fileWatches
              /\ rootDebounce' = rootDebounce
              /\ roots' = roots
              /\ now' = now
              /\ ~MapHas(directoryWatches', lastArg'.path)
              /\ \A q \in DirPaths \ {lastArg'.path} :
                   MapGet(directoryWatches', q) = MapGet(directoryWatches, q))]_vars
  /\ []((/\ lastOp = "change"
         /\ <<"directory", LastRoot>> \in closed
         /\ debounce # Undefined)
        => (/\ LastRoot \in roots
            /\ admitted <=> (now - debounce[1] > 500)
            /\ ~admitted => rootDebounce[LastRoot] = now))

\* C14 witness: the directory p was closed while its debounce entry was
\* there and another directory was registered; a later change for the root
\* p is still suppressed and refreshes the entry
C14_Witness ==
  /\ lastOp = "change"
  /\ <<"directory", LastRoot>> \in closed
  /\ debounce # Undefined
  /\ ~admitted
  /\ rootDebounce[LastRoot] = now
  /\ \E q \in DirPaths \ {LastRoot} : MapHas(directoryWatches, q)

\* C15: an admitted change whose full path has no entry in the registry of
\* its kind (directory registry for a directory change, file registry for a
\* file change, created files included) invokes no callback and raises no
\* error, and the change leaves both registries as they were
C15_UnknownPathIgnored ==
  /\ []((/\ lastOp = "change"
         /\ admitted
         /\ ~MapHas(IF lastArg.isDirectory THEN directoryWatches ELSE fileWatches,
                    LastFullPath))
        => (invoked = <<>> /\ ~raised /\ ~propagated))
  /\ [][(lastOp' = "change" /\ admitted' /\ invoked' = <<>>)
          => (fileWatches' = fileWatches /\ directoryWatches' = directoryWatches)]_vars

\* C15 witness: an admitted directory change below a registered directory,
\* the changed directory itself not registered, and no callback invoked
C15_Witness ==
  /\ lastOp = "change"
  /\ admitted
  /\ lastArg.isDirectory
  /\ lastArg.path # <<>>
  /\ MapHas(directoryWatches, LastRoot)
  /\ ~MapHas(directoryWatches, LastFullPath)
  /\ invoked = <<>>
  /\ ~raised

\* C15 witness of the file case: a .ts file that is not a removal and has no
\* entry, while another file is registered
C15_WitnessCreatedFile ==
  /\ lastOp = "change"
  /\ admitted
  /\ ~lastArg.isDirectory
  /\ ~lastArg.removal
  /\ LastEndsInTs
  /\ ~MapHas(fileWatches, LastFullPath)
  /\ fileWatches # EmptyMap
  /\ invoked = <<>>

\* C16: an error raised by the invoked callback leaves the change handler
\* uncaught; that change invoked exactly one callback, once; the registries
\* are as before the change and the debounce map is as the debounce check
\* left it (an entry removed on admission stays removed)
C16_CallbackErrorPropagates ==
  /\ []((lastOp = "change" /\ raised)
        => (propagated /\ admitted /\ Len(invoked) = 1))
  /\ [][(lastOp' = "change" /\ raised')
          => (/\ fileWatches' = fileWatches
              /\ directoryWatches' = directoryWatches
              /\ roots' = roots
              /\ ~MapHas(rootDebounce', lastArg'.root)
              /\ \A r \in Roots \ {lastArg'.root} :
                   MapGet(rootDebounce', r) = MapGet(rootDebounce, r))]_vars

\* C16 witness: the callback of a change raised, the error left the handler,
\* and the debounce entry removed on admitting that change is still absent
C16_Witness ==
  /\ lastOp = "change"
  /\ raised
  /\ propagated
  /\ Len(invoked) = 1
  /\ debounce # Undefined
  /\ ~MapHas(rootDebounce, LastRoot)

\* C17: changes are handled one at a time and to completion: every callback
\* invocation belongs to the change delivered in the same step, a change
\* invokes at most one callback, and the callback invoked is the one the
\* registry of the change's kind holds for its full path in that very step
\* (no registration or close happens between the lookup and the invocation)
C17_OneChangeAtATime ==
  /\ [](invoked # <<>>
        => (/\ lastOp = "change"
            /\ admitted
            /\ Len(invoked) = 1
            /\ invoked[1].args[1] = LastFullPath
            /\ MapGet(IF lastArg.isDirectory THEN directoryWatches ELSE fileWatches,
                      LastFullPath) = <<invoked[1].callback>>
            /\ LastKey \notin closed))
  /\ [][lastOp' = "change"
          => (/\ handles' = handles
              /\ fileWatches' = fileWatches
              /\ directoryWatches' = directoryWatches)]_vars

\* C17 witness: a change invoked a callback for a path that was registered
\* twice with different callbacks before the change was delivered
C17_Witness ==
  /\ lastOp = "change"
  /\ Len(invoked) = 1
  /\ \E h \in handles : /\ h.kind = LastKind
                        /\ h.path = LastFullPath
                        /\ h.callback # invoked[1].callback

\* C18: a change for a root without a debounce entry is admitted; a change
\* for the root r leaves the debounce entry of every other root as it was;
\* watchFile leaves the debounce map as it was
C18_DebouncePerRoot ==
  /\ []((lastOp = "change" /\ debounce = Undefined)
        => (admitted /\ ~MapHas(rootDebounce, LastRoot)))
  /\ [][lastOp' = "change"
          => \A r \in Roots \ {lastArg'.root} :
               MapGet(rootDebounce', r) = MapGet(rootDebounce, r)]_vars
  /\ [][lastOp' = "watchFile" => rootDebounce' = rootDebounce]_vars

\* C18 witness: a file change under a root that was never given to
\* watchDirectory invokes its callback while another root has a debounce
\* entry that has not elapsed
C18_Witness ==
  /\ lastOp = "change"
  /\ ~lastArg.isDirectory
  /\ LastRoot \notin roots
  /\ debounce = Undefined
  /\ Len(invoked) = 1
  /\ \E r \in Roots \ {LastRoot} :
       MapHas(rootDebounce, r) /\ now - rootDebounce[r] <= ROOT_DEBOUNCE

\* C19: the kind of a change alone selects the registry: a directory change
\* invokes the callback the directory registry holds for the full path, with
\* the path only, a file change the callback the file registry holds, with
\* path and event kind, also when both registries hold the path; watchDirectory
\* and close() of a directory handle leave the file registry as it was,
\* watchFile and close() of a file handle the directory registry
C19_RegistriesIndependent ==
  /\ []((lastOp = "change" /\ invoked # <<>>)
        => IF lastArg.isDirectory
             THEN /\ Len(invoked[1].args) = 1
                  /\ MapGet(directoryWatches, LastFullPath) = <<invoked[1].callback>>
             ELSE /\ Len(invoked[1].args) = 2
                  /\ MapGet(fileWatches, LastFullPath) = <<invoked[1].callback>>)
  /\ []((/\ lastOp = "change"
         /\ admitted
         /\ ~MapHas(IF lastArg.isDirectory THEN directoryWatches ELSE fileWatches,
                    LastFullPath))
        => invoked = <<>>)
  /\ [][(lastOp' \in {"watchDirectory", "close"} /\ lastArg'.kind = "directory")
          => fileWatches' = fileWatches]_vars
  /\ [][(lastOp' \in {"watchFile", "close"} /\ lastArg'.kind = "file")
          => directoryWatches' = directoryWatches]_vars

\* C19 witness: the path is in both registries with different callbacks and a
\* file change invokes the callback of the file registry
C19_Witness ==
  /\ lastOp = "change"
  /\ ~lastArg.isDirectory
  /\ MapHas(directoryWatches, LastFullPath)
  /\ MapHas(fileWatches, LastFullPath)
  /\ directoryWatches[LastFullPath] # fileWatches[LastFullPath]
  /\ Len(invoked) = 1
  /\ invoked[1].callback = fileWatches[LastFullPath]

\* C19 witness of the other direction: a directory change for the path, the
\* file entry is there and the directory entry was closed, nothing is invoked
C19_WitnessDirectoryClosed ==
  /\ lastOp = "change"
  /\ lastArg.isDirectory
  /\ admitted
  /\ ~MapHas(directoryWatches, LastFullPath)
  /\ MapHas(fileWatches, LastFullPath)
  /\ <<"directory", LastFullPath>> \in closed
  /\ invoked = <<>>

\* C20: a change never writes the registries, the added roots or the handles
\* and never touches the debounce entry of another root; a change suppressed
\* by debounce only sets the entry of its own root to the current time; a
\* change that is admitted and invokes nothing (extension filter, no entry)
\* only removes the entry of its own root, if there was one
C20_ChangeFrame ==
  [][lastOp' = "change"
       => (/\ fileWatches' = fileWatches
           /\ directoryWatches' = directoryWatches
           /\ roots' = roots
           /\ handles' = handles
           /\ now' = now
           /\ \A r \in Roots \ {lastArg'.root} :
                MapGet(rootDebounce', r) = MapGet(rootDebounce, r)
           /\ DOMAIN rootDebounce' \subseteq DOMAIN rootDebounce
           /\ IF admitted'
                THEN ~MapHas(rootDebounce', lastArg'.root)
                ELSE /\ invoked' = <<>>
                     /\ MapHas(rootDebounce, lastArg'.root)
                     /\ MapGet(rootDebounce', lastArg'.root) = <<now>>)]_vars

\* C20 witness: a change dropped by the extension filter removed the elapsed
\* entry of its root and the entry of another root is still there
C20_Witness ==
  /\ lastOp = "change"
  /\ ~lastArg.isDirectory
  /\ ~LastEndsInTs
  /\ admitted
  /\ invoked = <<>>
  /\ debounce # Undefined
  /\ ~MapHas(rootDebounce, LastRoot)
  /\ \E r \in Roots \ {LastRoot} : MapHas(rootDebounce, r)

\* C20 witness of a change suppressed by debounce
C20_WitnessSuppressed ==
  /\ lastOp = "change"
  /\ ~admitted
  /\ now > 0
  /\ rootDebounce[LastRoot] = now
  /\ \E r \in Roots \ {LastRoot} : MapHas(rootDebounce, r) /\ rootDebounce[r] < now

====
